---------------------------- MODULE Spec2Model ----------------------------
(***************************************************************************)
(* A model of the item persistence layer (file-backed: go/app/infra.go,    *)
(* relational: unnamed/part_000) and of the content-addressed image store  *)
(* with its handlers (unnamed/part_001).                                   *)
(*                                                                         *)
(* Text values are sequences of one-character strings, so that JSON        *)
(* escaping and SQL LIKE matching are computed character by character.     *)
(* Paths are sequences of path segments.                                   *)
(***************************************************************************)
EXTENDS Integers, Sequences, FiniteSets, TLC

VARIABLES
    backend,       \* which itemRepository is wired in: "file" or "db"
    jsonFile,      \* items.json: [exists, data], data a sequence of JSON tokens
    categories,    \* table categories: rows [id, name] in rowid order
    items,         \* table items: rows [id, name, category_id, image_name]
    inserted,      \* log: the items of the Insert calls that returned nil
    insertFailed,  \* log: some Insert call has returned an error
    lastCall,      \* log: the last call made, with its argument and its results
    imgDirPath,    \* Handlers.imgDirPath, a cleaned relative path
    fs,            \* the file system: the set of regular files [path, bytes]
    puts,          \* log: the storeImage calls made, [image, ret, err] each
    proc           \* the in-flight calls of the concurrent specifications

vars == <<backend, jsonFile, categories, items, inserted, insertFailed,
          lastCall, imgDirPath, fs, puts, proc>>

storeVars == <<backend, jsonFile, categories, items, inserted, insertFailed>>
imageVars == <<imgDirPath, fs, puts>>

(***************************************************************************)
(* Bounds.                                                                 *)
(***************************************************************************)
MaxItems == 2

(***************************************************************************)
(* Generic helpers.                                                        *)
(***************************************************************************)
RECURSIVE Flatten(_)
Flatten(ss) == IF ss = <<>> THEN <<>> ELSE Head(ss) \o Flatten(Tail(ss))

Range(s) == {s[i] : i \in DOMAIN s}

Last(s) == s[Len(s)]

Count(s, x) == Cardinality({i \in DOMAIN s : s[i] = x})

SameBag(s, t) ==
    /\ Len(s) = Len(t)
    /\ \A i \in DOMAIN s : Count(s, s[i]) = Count(t, s[i])

(***************************************************************************)
(* The values the callers pass.  The characters cover what the encoders    *)
(* and the matcher treat specially: the JSON string delimiter, the JSON    *)
(* escape character, an HTML character encoding/json escapes, two letter   *)
(* cases, and the two LIKE wildcards.                                      *)
(***************************************************************************)
Names == { <<"A", "b">>, <<"\"", "<", "\\">> }

CategoryNames == { <<"a">>, <<"B", "_">> }

ImageNames == { <<"x">>, <<"%">> }

\* The Item a caller passes to Insert: AddItem leaves ID at its zero value.
Item == [id : {0}, name : Names, category : CategoryNames, image : ImageNames]

Keywords == { <<>>, <<"a">>, <<"b">>, <<"A", "B">>, <<"_">>, <<"%">>, <<"\\">> }

Ids == -1 .. (MaxItems + 1)

errNil == "nil"
errItemNotFound == "item not found"


(***************************************************************************)
(* encoding/json, as infra.go uses it.  A JSON document is a sequence of   *)
(* tokens: the opening of {"items":[ , one token per item object, whose    *)
(* fields hold the string literals as written (escaped), and the closing   *)
(* ]} with its newline.                                                    *)
(***************************************************************************)
\* A string encoder that writes every character as it is.
EscapeCharRaw(c) == <<c>>

EscapeChar(c) ==
    CASE c = "\"" -> <<"\\", "\"">>
      [] c = "\\" -> <<"\\", "\\">>
      [] c = "<"  -> <<"\\", "u", "0", "0", "3", "c">>
      [] OTHER    -> <<c>>

encodeString(s) == Flatten([i \in DOMAIN s |-> EscapeChar(s[i])])

\* The body of a string literal back to its value; ok is FALSE when the
\* literal ends early (an unescaped quote) or holds an invalid escape.
RECURSIVE unquote(_)
unquote(lit) ==
    IF lit = <<>> THEN [ok |-> TRUE, val |-> <<>>]
    ELSE IF Head(lit) = "\"" THEN [ok |-> FALSE, val |-> <<>>]
    ELSE IF Head(lit) # "\\" THEN
        LET r == unquote(Tail(lit))
        IN  [ok |-> r.ok, val |-> <<Head(lit)>> \o r.val]
    ELSE IF Len(lit) < 2 THEN [ok |-> FALSE, val |-> <<>>]
    ELSE IF lit[2] \in {"\"", "\\"} THEN
        LET r == unquote(SubSeq(lit, 3, Len(lit)))
        IN  [ok |-> r.ok, val |-> <<lit[2]>> \o r.val]
    ELSE IF lit[2] = "u" /\ Len(lit) >= 6
            /\ SubSeq(lit, 3, 6) = <<"0", "0", "3", "c">> THEN
        LET r == unquote(SubSeq(lit, 7, Len(lit)))
        IN  [ok |-> r.ok, val |-> <<"<">> \o r.val]
    ELSE [ok |-> FALSE, val |-> <<>>]

OpenTok  == [t |-> "open",  name |-> <<>>, category |-> <<>>, image |-> <<>>]
CloseTok == [t |-> "close", name |-> <<>>, category |-> <<>>, image |-> <<>>]

\* Item's json tags: ID is "-" (never written), name, category, image.
ItemTok(it) ==
    [t |-> "item", name |-> encodeString(it.name),
     category |-> encodeString(it.category), image |-> encodeString(it.image)]

\* json.NewEncoder(file).Encode(data): one document, written in one piece.
Encode(its) == <<OpenTok>> \o [i \in DOMAIN its |-> ItemTok(its[i])] \o <<CloseTok>>

TokOk(tok) ==
    tok.t = "item" /\ unquote(tok.name).ok /\ unquote(tok.category).ok
                   /\ unquote(tok.image).ok

TokItem(tok) ==
    [id |-> 0, name |-> unquote(tok.name).val, category |-> unquote(tok.category).val,
     image |-> unquote(tok.image).val]

\* The first JSON value of data: its items, how many tokens it takes, and
\* the decoder's error.
DecodeValue(data) ==
    IF data = <<>> THEN [err |-> "EOF", items |-> <<>>, used |-> 0]
    ELSE IF data[1].t # "open" THEN
        [err |-> "invalid character", items |-> <<>>, used |-> 0]
    ELSE LET closes == {k \in DOMAIN data : data[k].t = "close"}
         IN  IF closes = {} THEN
                 [err |-> "unexpected EOF", items |-> <<>>, used |-> 0]
             ELSE LET k    == CHOOSE c \in closes : \A d \in closes : c <= d
                      body == SubSeq(data, 2, k - 1)
                  IN  IF \A i \in DOMAIN body : TokOk(body[i])
                      THEN [err |-> errNil,
                            items |-> [i \in DOMAIN body |-> TokItem(body[i])],
                            used |-> k]
                      ELSE [err |-> "invalid character", items |-> <<>>,
                            used |-> 0]

\* json.Unmarshal: the whole input must be exactly one value.
Unmarshal(data) ==
    LET d == DecodeValue(data)
    IN  IF d.err = "EOF" THEN
            [err |-> "unexpected end of JSON input", items |-> <<>>]
        ELSE IF d.err # errNil THEN [err |-> d.err, items |-> <<>>]
        ELSE IF d.used # Len(data) THEN
            [err |-> "invalid character after top-level value", items |-> <<>>]
        ELSE [err |-> errNil, items |-> d.items]

(***************************************************************************)
(* The file-backed itemRepository (go/app/infra.go).                       *)
(***************************************************************************)
FileFaults == {"none", "open", "encode"}

\* An Insert that keeps only the new item.
InsertOverwrite(decoded, item) == <<item>>

\* data.Items = append(data.Items, *item)
InsertAppend(decoded, item) == Append(decoded, item)

\* Insert, run alone: open with O_RDWR|O_CREATE, decode what is there,
\* append, seek to 0, truncate, encode.
InsertFile(f, item, fault) ==
    IF fault = "open" THEN [file |-> f, err |-> "open failed"]
    ELSE LET d == DecodeValue(f.data)
         IN  IF d.err \notin {errNil, "EOF"} THEN
                 [file |-> [exists |-> TRUE, data |-> f.data], err |-> d.err]
             ELSE IF fault = "encode" THEN
                 [file |-> [exists |-> TRUE, data |-> <<>>], err |-> "write failed"]
             ELSE [file |-> [exists |-> TRUE, data |-> Encode(InsertAppend(d.items, item))],
                   err |-> errNil]

ListFile(f) ==
    IF ~f.exists THEN [ret |-> <<>>, err |-> errNil]
    ELSE LET u == Unmarshal(f.data)
         IN  IF u.err # errNil
             THEN [ret |-> <<>>, err |-> "failed to read file"]
             ELSE [ret |-> u.items, err |-> errNil]

SelectFile(f, id) ==
    IF id <= 0 THEN [ret |-> <<>>, err |-> errItemNotFound]
    ELSE LET l == ListFile(f)
         IN  IF l.err # errNil THEN [ret |-> <<>>, err |-> l.err]
             ELSE IF Len(l.ret) < id THEN [ret |-> <<>>, err |-> errItemNotFound]
             ELSE [ret |-> <<l.ret[id]>>, err |-> errNil]

(***************************************************************************)
(* SQLite, as part_000 uses it.                                            *)
(***************************************************************************)
\* A statement names the tables of its FROM/JOIN clauses and the tables its
\* column references are qualified with.
ListQuery   == [from |-> {"items", "categories"}, refs |-> {"items", "categories"}]
SelectQuery == [from |-> {"items"},               refs |-> {"items", "categories"}]
SearchQuery == [from |-> {"items", "categories"}, refs |-> {"items", "categories"}]

\* Preparing a statement fails on a column of a table that is not in scope.
Prepare(q) == IF q.refs \subseteq q.from THEN errNil ELSE "no such column"

\* items JOIN categories ON items.category_id = categories.id, scanned in
\* rowid order, as the rows Scan fills an Item from.
JoinRows(cats, its) ==
    Flatten([i \in DOMAIN its |->
        LET match == SelectSeq(cats, LAMBDA c : c.id = its[i].category_id)
        IN  [j \in DOMAIN match |->
                [id |-> its[i].id, name |-> its[i].name,
                 category |-> match[j].name, image |-> its[i].image_name]]])

\* ASCII case folding of the LIKE operator.
Fold(c) == CASE c = "A" -> "a" [] c = "B" -> "b" [] OTHER -> c

\* str LIKE pat, without an ESCAPE clause: % is any run of characters, _ is
\* any one character, every other character matches itself up to ASCII case.
RECURSIVE Like(_, _)
Like(pat, str) ==
    IF pat = <<>> THEN str = <<>>
    ELSE IF Head(pat) = "%" THEN
        \E k \in 0 .. Len(str) : Like(Tail(pat), SubSeq(str, k + 1, Len(str)))
    ELSE IF str = <<>> THEN FALSE
    ELSE IF Head(pat) = "_" THEN Like(Tail(pat), Tail(str))
    ELSE Fold(Head(pat)) = Fold(Head(str)) /\ Like(Tail(pat), Tail(str))

\* The id the next INSERT into a table gets.
NextId(rows) == IF rows = <<>> THEN 1 ELSE Last(rows).id + 1

(***************************************************************************)
(* The relational itemRepository (unnamed/part_000).                       *)
(***************************************************************************)
DBFaults == {"none", "query", "insertCategory", "lastInsertId", "insertItem"}

\* A lookup whose parameter is not bound to the item's category.
LookupCategoryUnbound(cats, name) == SelectSeq(cats, LAMBDA c : c.name = <<>>)

\* SELECT id FROM categories WHERE name = ?  (BINARY collation: exact match)
LookupCategory(cats, name) == SelectSeq(cats, LAMBDA c : c.name = name)

\* An Insert that goes on to write the item row when resolving the category
\* failed, with categoryID left at its zero value.
InsertDBNoAbort(cats, its, item, fault) ==
    LET found  == LookupCategory(cats, item.category)
        failed == fault \in {"query", "insertCategory", "lastInsertId"}
        newCat == [id |-> NextId(cats), name |-> item.category]
        cats2  == IF found = <<>> /\ ~failed THEN Append(cats, newCat) ELSE cats
        categoryID == IF failed THEN 0
                      ELSE IF found = <<>> THEN newCat.id ELSE found[1].id
        row    == [id |-> NextId(its), name |-> item.name,
                   category_id |-> categoryID, image_name |-> item.image]
    IN  IF fault = "insertItem" THEN
            [categories |-> cats2, items |-> its, err |-> "failed to insert item"]
        ELSE [categories |-> cats2, items |-> Append(its, row), err |-> errNil]

InsertDB(cats, its, item, fault) ==
    LET found  == LookupCategory(cats, item.category)
        newCat == [id |-> NextId(cats), name |-> item.category]
        cats2  == IF found = <<>> THEN Append(cats, newCat) ELSE cats
        categoryID == IF found = <<>> THEN newCat.id ELSE found[1].id
        row    == [id |-> NextId(its), name |-> item.name,
                   category_id |-> categoryID, image_name |-> item.image]
    IN  IF fault = "query" THEN
            [categories |-> cats, items |-> its, err |-> "failed to query category"]
        ELSE IF found = <<>> /\ fault = "insertCategory" THEN
            [categories |-> cats, items |-> its, err |-> "failed to insert category"]
        ELSE IF found = <<>> /\ fault = "lastInsertId" THEN
            [categories |-> cats2, items |-> its,
             err |-> "failed to get last insert ID"]
        ELSE IF fault = "insertItem" THEN
            [categories |-> cats2, items |-> its, err |-> "failed to insert item"]
        ELSE [categories |-> cats2, items |-> Append(its, row), err |-> errNil]

ListDB(cats, its) ==
    IF Prepare(ListQuery) # errNil
    THEN [ret |-> <<>>, err |-> "failed to query items"]
    ELSE [ret |-> JoinRows(cats, its), err |-> errNil]

SelectDB(cats, its, id) ==
    IF id <= 0 THEN [ret |-> <<>>, err |-> errItemNotFound]
    ELSE IF Prepare(SelectQuery) # errNil
    THEN [ret |-> <<>>, err |-> "failed to select item"]
    ELSE LET rows == SelectSeq(JoinRows(cats, its), LAMBDA r : r.id = id)
         IN  IF rows = <<>> THEN [ret |-> <<>>, err |-> errItemNotFound]
             ELSE [ret |-> <<rows[1]>>, err |-> errNil]

SearchDB(cats, its, keyword) ==
    LET searchTerm == <<"%">> \o keyword \o <<"%">>
    IN  IF Prepare(SearchQuery) # errNil
        THEN [ret |-> <<>>, err |-> "failed to search items"]
        ELSE [ret |-> SelectSeq(JoinRows(cats, its),
                        LAMBDA r : Like(searchTerm, r.name)
                                   \/ Like(searchTerm, r.category)),
              err |-> errNil]

(***************************************************************************)
(* The Item Store under sequential use: one call at a time, on either      *)
(* backend, starting from an empty store.                                  *)
(***************************************************************************)
NoCall == [op |-> "none", arg |-> <<>>, fault |-> "none", ret |-> <<>>,
           err |-> errNil]

NoFile == [exists |-> FALSE, data |-> <<>>]

\* The image store's variables in the specifications that do not use it.
imageVarsIdle == imgDirPath = [rooted |-> FALSE, segs |-> <<>>] /\ fs = {} /\ puts = <<>>

InitStore ==
    /\ backend \in {"file", "db"}
    /\ jsonFile = NoFile
    /\ categories = <<>>
    /\ items = <<>>
    /\ inserted = <<>>
    /\ insertFailed = FALSE
    /\ lastCall = NoCall
    /\ imageVarsIdle
    /\ proc = <<>>

Faults == IF backend = "file" THEN FileFaults ELSE DBFaults

Insert(item, fault) ==
    /\ Len(inserted) < MaxItems
    /\ LET r == IF backend = "file"
                THEN LET f == InsertFile(jsonFile, item, fault)
                     IN  [file |-> f.file, categories |-> categories,
                          items |-> items, err |-> f.err]
                ELSE LET d == InsertDB(categories, items, item, fault)
                     IN  [file |-> jsonFile, categories |-> d.categories,
                          items |-> d.items, err |-> d.err]
       IN  /\ jsonFile' = r.file
           /\ categories' = r.categories
           /\ items' = r.items
           /\ inserted' = IF r.err = errNil THEN Append(inserted, item) ELSE inserted
           /\ insertFailed' = (insertFailed \/ r.err # errNil)
           /\ lastCall' = [op |-> "Insert", arg |-> item, fault |-> fault,
                           ret |-> <<>>, err |-> r.err]
    /\ UNCHANGED <<backend, imgDirPath, fs, puts, proc>>

List ==
    /\ LET r == IF backend = "file" THEN ListFile(jsonFile)
                                    ELSE ListDB(categories, items)
       IN  lastCall' = [op |-> "List", arg |-> <<>>, fault |-> "none",
                        ret |-> r.ret, err |-> r.err]
    /\ UNCHANGED <<storeVars, imgDirPath, fs, puts, proc>>

Select(id) ==
    /\ LET r == IF backend = "file" THEN SelectFile(jsonFile, id)
                                    ELSE SelectDB(categories, items, id)
       IN  lastCall' = [op |-> "Select", arg |-> id, fault |-> "none",
                        ret |-> r.ret, err |-> r.err]
    /\ UNCHANGED <<storeVars, imgDirPath, fs, puts, proc>>

\* Only the relational ItemRepository has Search.
Search(keyword) ==
    /\ backend = "db"
    /\ LET r == SearchDB(categories, items, keyword)
       IN  lastCall' = [op |-> "Search", arg |-> keyword, fault |-> "none",
                        ret |-> r.ret, err |-> r.err]
    /\ UNCHANGED <<storeVars, imgDirPath, fs, puts, proc>>

NextStore ==
    \/ \E item \in Item : \E fault \in Faults : Insert(item, fault)
    \/ List
    \/ \E id \in Ids : Select(id)
    \/ \E keyword \in Keywords : Search(keyword)

SpecStore == InitStore /\ [][NextStore]_vars

(***************************************************************************)
(* Claims about the Item Store under sequential use (SpecStore).           *)
(***************************************************************************)
Fields(it) == [name |-> it.name, category |-> it.category, image |-> it.image]

FieldsOf(its) == [i \in DOMAIN its |-> Fields(its[i])]

\* s contains kw as a literal, case-sensitive substring.
Contains(s, kw) ==
    \E k \in 1 .. (Len(s) - Len(kw) + 1) : SubSeq(s, k, k + Len(kw) - 1) = kw

\* C2: starting from an empty store, after Insert calls that all succeeded,
\* List returns without error one record per Insert, with the name, category
\* and image that were inserted, on the file-backed and on the relational
\* store.
C2_InsertListRoundTrip ==
    (lastCall.op = "List" /\ ~insertFailed) =>
        /\ lastCall.err = errNil
        /\ SameBag(FieldsOf(lastCall.ret), FieldsOf(inserted))

\* C2's case: the file-backed store lists two inserted items, one of them
\* with a name that JSON has to escape.
C2_Witness ==
    /\ backend = "file"
    /\ lastCall.op = "List"
    /\ ~insertFailed
    /\ Len(inserted) >= 2
    /\ \E i \in DOMAIN inserted : inserted[i].name = <<"\"", "<", "\\">>
    /\ Len(lastCall.ret) = Len(inserted)

\* C3: on both backends Select(id) returns errItemNotFound for id <= 0 and for
\* id larger than the number of stored items, and returns the id-th inserted
\* item with its category name, and no error, for every other id.
C3_SelectContract ==
    (lastCall.op = "Select" /\ ~insertFailed) =>
        IF lastCall.arg <= 0 \/ lastCall.arg > Len(inserted)
        THEN lastCall.err = errItemNotFound
        ELSE /\ lastCall.err = errNil
             /\ FieldsOf(lastCall.ret) = <<Fields(inserted[lastCall.arg])>>

UniqueCategoryNames ==
    \A i, j \in DOMAIN categories :
        categories[i].name = categories[j].name => i = j

\* C5: in the relational store, under sequential use, no two category rows
\* have the same name; an Insert whose category name exists leaves the
\* categories table as it is, and an Insert with an unseen name adds at most
\* one row, and exactly one, with that name, when it succeeds.
C5_OneCategoryRowPerName ==
    /\ [](backend = "db" => UniqueCategoryNames)
    /\ [][(backend = "db" /\ lastCall'.op = "Insert") =>
            IF \E i \in DOMAIN categories :
                   categories[i].name = lastCall'.arg.category
            THEN categories' = categories
            ELSE /\ categories' = categories
                    \/ /\ Len(categories') = Len(categories) + 1
                       /\ SubSeq(categories', 1, Len(categories)) = categories
                       /\ Last(categories').name = lastCall'.arg.category
                 /\ lastCall'.err = errNil => categories' # categories]_vars

\* C5's case: two items of one category were inserted and the category has
\* one row.
C5_Witness ==
    /\ backend = "db"
    /\ Len(items) = 2
    /\ items[1].category_id = items[2].category_id
    /\ Len(categories) = 1

\* C6: Search(keyword) returns exactly the stored items whose name or
\* category name contains keyword as a case-sensitive literal substring.
C6_SearchLiteralSubstring ==
    lastCall.op = "Search" =>
        /\ lastCall.err = errNil
        /\ lastCall.ret =
              SelectSeq(JoinRows(categories, items),
                        LAMBDA r : Contains(r.name, lastCall.arg)
                                   \/ Contains(r.category, lastCall.arg))

NoDanglingCategory ==
    \A i \in DOMAIN items :
        \E j \in DOMAIN categories : categories[j].id = items[i].category_id

\* C8: in the relational store every item row references an existing
\* category row, and an Insert whose category lookup, category creation or
\* LastInsertId fails returns an error and writes no item row.
C8_ItemsReferenceCategories ==
    /\ [](backend = "db" => NoDanglingCategory)
    /\ [][(/\ backend = "db"
           /\ lastCall'.op = "Insert"
           /\ \/ lastCall'.fault = "query"
              \/ /\ lastCall'.fault \in {"insertCategory", "lastInsertId"}
                 /\ \A i \in DOMAIN categories :
                        categories[i].name # lastCall'.arg.category)
          => (lastCall'.err # errNil /\ items' = items)]_vars

\* C8's case: an item row was written after its category was created, and a
\* later Insert failed while creating another category.
C8_Witness ==
    /\ backend = "db"
    /\ Len(items) >= 1
    /\ lastCall.op = "Insert"
    /\ lastCall.err = "failed to insert category"

(***************************************************************************)
(* path/filepath (Unix).  A path is [rooted, segs]: whether it starts with *)
(* a separator, and its segments.  The empty string has no segments.       *)
(***************************************************************************)
MaxSegs == 3

Path(rooted, segs) == [rooted |-> rooted, segs |-> segs]

EmptyPath == Path(FALSE, <<>>)

\* The segments of Clean's result, built left to right: "" and "." are
\* dropped, ".." removes the segment before it, is dropped at the root, and
\* is kept at the start of a relative path.
RECURSIVE CleanSegs(_, _, _)
CleanSegs(rooted, out, rest) ==
    IF rest = <<>> THEN out
    ELSE LET s == Head(rest)
         IN  IF s \in {"", "."} THEN CleanSegs(rooted, out, Tail(rest))
             ELSE IF s = ".." THEN
                 IF out # <<>> /\ Last(out) # ".."
                 THEN CleanSegs(rooted, SubSeq(out, 1, Len(out) - 1), Tail(rest))
                 ELSE IF rooted THEN CleanSegs(rooted, out, Tail(rest))
                 ELSE CleanSegs(rooted, Append(out, ".."), Tail(rest))
             ELSE CleanSegs(rooted, Append(out, s), Tail(rest))

\* filepath.Clean: an empty relative result is ".".
Clean(p) ==
    LET segs == CleanSegs(p.rooted, <<>>, p.segs)
    IN  IF segs = <<>> /\ ~p.rooted THEN Path(FALSE, <<".">>)
        ELSE Path(p.rooted, segs)

\* filepath.Join(a, b): empty elements are ignored, the rest are joined with
\* a separator and cleaned.  A rooted b adds an empty segment.
Join(a, b) ==
    IF a = EmptyPath /\ b = EmptyPath THEN EmptyPath
    ELSE IF a = EmptyPath THEN Clean(b)
    ELSE IF b = EmptyPath THEN Clean(a)
    ELSE Clean(Path(a.rooted,
                    a.segs \o (IF b.rooted THEN <<"">> ELSE <<>>) \o b.segs))

\* filepath.Rel(basepath, targpath): [path, err].
Rel(basepath, targpath) ==
    LET base == Clean(basepath)
        targ == Clean(targpath)
        B == IF base = Path(FALSE, <<".">>) THEN <<>> ELSE base.segs
        T == targ.segs
        same == {k \in 0 .. Len(B) :
                    k <= Len(T) /\ \A i \in 1 .. k : B[i] = T[i]}
        k == CHOOSE c \in same : \A d \in same : d <= c
    IN  IF targ = base THEN [path |-> Path(FALSE, <<".">>), err |-> errNil]
        ELSE IF base.rooted # targ.rooted
        THEN [path |-> EmptyPath, err |-> "Rel: can't make relative"]
        ELSE IF k < Len(B) /\ B[k + 1] = ".."
        THEN [path |-> EmptyPath, err |-> "Rel: can't make relative"]
        ELSE [path |-> Path(FALSE, [i \in 1 .. (Len(B) - k) |-> ".."]
                                   \o SubSeq(T, k + 1, Len(T))),
              err |-> errNil]

(***************************************************************************)
(* The image store and its handlers (unnamed/part_001).                    *)
(***************************************************************************)
\* The uploaded payloads, and hex.EncodeToString(sha256.Sum256(image)) of
\* each.
Payloads == { <<1, 2, 3>>, <<1>> }

Sum256Hex(image) ==
    CASE image = <<1, 2, 3>> ->
             "039058c6f2c0cb492c533b0a4d14ef77cc0f78abccced5287d84a1a2011cfb81"
      [] image = <<1>> ->
             "4bf5122f344554c53bde2ebb8cd2b7e3d1600ad631c385a5d7cce23c7785459a"

\* fmt.Sprintf("%s.jpg", hashStr), as the one segment it is.
JpgName(hashStr) ==
    CASE hashStr = Sum256Hex(<<1, 2, 3>>) ->
             "039058c6f2c0cb492c533b0a4d14ef77cc0f78abccced5287d84a1a2011cfb81.jpg"
      [] hashStr = Sum256Hex(<<1>>) ->
             "4bf5122f344554c53bde2ebb8cd2b7e3d1600ad631c385a5d7cce23c7785459a.jpg"

\* The segments a requested file name is made of.
NameSegs == {"..", ".", "a", "images", "b.jpg", "c.jpeg", "x.png", "..b.jpg",
             "default.jpg"}

\* strings.HasPrefix(s, ".."), strings.HasSuffix(s, ".jpg") and
\* strings.HasSuffix(s, ".jpeg") of a path: decided by its first or last
\* segment.
HasDotDotPrefix(p) == p.segs # <<>> /\ p.segs[1] \in {"..", "..b.jpg"}

HasJpgSuffix(p) ==
    /\ p.segs # <<>>
    /\ Last(p.segs) \in {"b.jpg", "..b.jpg", "default.jpg"}
                        \cup {JpgName(Sum256Hex(b)) : b \in Payloads}

HasJpegSuffix(p) == p.segs # <<>> /\ Last(p.segs) = "c.jpeg"

\* os.Stat(path) finds something.
Exists(fsys, path) == \E f \in fsys : f.path = path

\* The file system after os.WriteFile(path, bytes) has succeeded.
WriteFile(fsys, path, bytes) ==
    {f \in fsys : f.path # path} \cup {[path |-> path, bytes |-> bytes]}

PutFaults == {"none", "stat", "open", "write"}

\* storeImage, run alone.  Faults: Stat fails other than with not-exist;
\* WriteFile fails to open the file; WriteFile creates the file and fails to
\* write it.
storeImage(fsys, dir, image, fault) ==
    LET hashStr  == Sum256Hex(image)
        fileName == Path(FALSE, <<JpgName(hashStr)>>)
        filePath == Join(dir, fileName)
    IN  IF fault = "stat" THEN
            [fs |-> fsys, ret |-> EmptyPath,
             err |-> "error checking image existance"]
        ELSE IF Exists(fsys, filePath) THEN
            [fs |-> fsys, ret |-> filePath, err |-> errNil]
        ELSE IF fault = "open" THEN
            [fs |-> fsys, ret |-> EmptyPath, err |-> "failed to store image"]
        ELSE IF fault = "write" THEN
            [fs |-> WriteFile(fsys, filePath, <<>>), ret |-> EmptyPath,
             err |-> "failed to store image"]
        ELSE [fs |-> WriteFile(fsys, filePath, image), ret |-> fileName,
              err |-> errNil]

errImageNotFound == "image not found"
errInvalidPath == "invalid image path"
errBadSuffix == "image path does not end with .jpg or .jpeg"

\* A buildImagePath without the check against directory traversal.
buildImagePathUnchecked(fsys, dir, imageFileName) ==
    LET imgPath == Join(dir, Clean(imageFileName))
    IN  IF ~HasJpgSuffix(imgPath) /\ ~HasJpegSuffix(imgPath)
        THEN [path |-> EmptyPath, err |-> errBadSuffix]
        ELSE IF ~Exists(fsys, imgPath)
        THEN [path |-> imgPath, err |-> errImageNotFound]
        ELSE [path |-> imgPath, err |-> errNil]

buildImagePath(fsys, dir, imageFileName) ==
    LET imgPath == Join(dir, Clean(imageFileName))
        rel     == Rel(dir, imgPath)
    IN  IF rel.err # errNil \/ HasDotDotPrefix(rel.path)
        THEN [path |-> EmptyPath, err |-> errInvalidPath]
        ELSE IF ~HasJpgSuffix(imgPath) /\ ~HasJpegSuffix(imgPath)
        THEN [path |-> EmptyPath, err |-> errBadSuffix]
        ELSE IF ~Exists(fsys, imgPath)
        THEN [path |-> imgPath, err |-> errImageNotFound]
        ELSE [path |-> imgPath, err |-> errNil]

DefaultImage == Path(FALSE, <<"default.jpg">>)

\* A GetImage that falls back to the default image on every error of
\* buildImagePath.
GetImageResponseAnyError(fsys, dir, fileName) ==
    IF fileName = EmptyPath THEN
        [answer |-> "400", served |-> EmptyPath, path |-> EmptyPath,
         err |-> "filename is required"]
    ELSE LET r == buildImagePath(fsys, dir, fileName)
         IN  IF r.err # errNil THEN
                 [answer |-> "ServeFile", served |-> Join(dir, DefaultImage),
                  path |-> r.path, err |-> r.err]
             ELSE [answer |-> "ServeFile", served |-> r.path, path |-> r.path,
                   err |-> r.err]

\* GetImage: what the handler answers with, http.Error with status 400 or
\* http.ServeFile on a path, and what buildImagePath returned to it.
GetImageResponse(fsys, dir, fileName) ==
    IF fileName = EmptyPath THEN
        [answer |-> "400", served |-> EmptyPath, path |-> EmptyPath,
         err |-> "filename is required"]
    ELSE LET r == buildImagePath(fsys, dir, fileName)
         IN  IF r.err # errNil /\ r.err # errImageNotFound THEN
                 [answer |-> "400", served |-> EmptyPath, path |-> r.path,
                  err |-> r.err]
             ELSE IF r.err = errImageNotFound THEN
                 [answer |-> "ServeFile", served |-> Join(dir, DefaultImage),
                  path |-> r.path, err |-> r.err]
             ELSE [answer |-> "ServeFile", served |-> r.path, path |-> r.path,
                   err |-> r.err]

(***************************************************************************)
(* The image store under sequential use.                                   *)
(***************************************************************************)
MaxPuts == 3

\* Server.ImageDirPath, as configured.
DirPaths == { Path(FALSE, <<"images">>), Path(TRUE, <<"srv", "images">>) }

storeVarsIdle ==
    /\ backend = "none"
    /\ jsonFile = NoFile
    /\ categories = <<>>
    /\ items = <<>>
    /\ inserted = <<>>
    /\ insertFailed = FALSE

\* The image directory holds the default image or not, and a blob stored
\* by an earlier run or not.
InitPut ==
    /\ storeVarsIdle
    /\ lastCall = NoCall
    /\ imgDirPath \in DirPaths
    /\ fs \in SUBSET {
           [path |-> Join(imgDirPath, DefaultImage), bytes |-> <<9>>],
           [path |-> Join(imgDirPath, Path(FALSE, <<JpgName(Sum256Hex(<<1>>))>>)),
            bytes |-> <<1>>] }
    /\ puts = <<>>
    /\ proc = <<>>

StoreImageCall(image, fault) ==
    /\ Len(puts) < MaxPuts
    /\ LET r == storeImage(fs, imgDirPath, image, fault)
       IN  /\ fs' = r.fs
           /\ puts' = Append(puts, [image |-> image, ret |-> r.ret, err |-> r.err])
    /\ UNCHANGED <<storeVars, lastCall, imgDirPath, proc>>

NextPut == \E image \in Payloads : \E fault \in PutFaults : StoreImageCall(image, fault)

SpecPut == InitPut /\ [][NextPut]_vars

\* The file names a client may ask for: up to MaxSegs segments, with or
\* without a leading separator.
RequestNames ==
    {Path(r, segs) : r \in BOOLEAN,
                     segs \in UNION {[1 .. n -> NameSegs] : n \in 0 .. MaxSegs}}

\* A request for GET /images/{filename} arrives.  The image directory holds
\* b.jpg or not and the default image or not, and there is a b.jpg next to
\* the image directory or not.
InitGetImage ==
    /\ storeVarsIdle
    /\ \E fileName \in RequestNames :
           lastCall = [op |-> "request", arg |-> fileName, fault |-> "none",
                       ret |-> <<>>, err |-> errNil]
    /\ imgDirPath \in DirPaths
    /\ fs \in SUBSET {
           [path |-> Join(imgDirPath, DefaultImage), bytes |-> <<9>>],
           [path |-> Join(imgDirPath, Path(FALSE, <<"b.jpg">>)), bytes |-> <<7>>],
           [path |-> Join(imgDirPath, Path(FALSE, <<"..", "b.jpg">>)),
            bytes |-> <<8>>] }
    /\ puts = <<>>
    /\ proc = <<>>

GetImage ==
    /\ lastCall.op = "request"
    /\ LET r == GetImageResponse(fs, imgDirPath, lastCall.arg)
       IN  lastCall' = [op |-> "GetImage", arg |-> lastCall.arg, fault |-> "none",
                        ret |-> <<[answer |-> r.answer, served |-> r.served,
                                   path |-> r.path]>>,
                        err |-> r.err]
    /\ UNCHANGED <<storeVars, imageVars, proc>>

NextGetImage == GetImage

SpecGetImage == InitGetImage /\ [][NextGetImage]_vars

(***************************************************************************)
(* Claims about the image store under sequential use.                      *)
(***************************************************************************)
StableName(image) == Path(FALSE, <<JpgName(Sum256Hex(image))>>)

\* C1: two storeImage calls in sequence with the same payload, both
\* successful, return the same name, and the image directory then holds
\* exactly one blob for that content, at its name "<hex-sha256>.jpg".
C1_PutTwiceSameName ==
    \A i \in 1 .. (Len(puts) - 1) :
        (/\ puts[i].image = puts[i + 1].image
         /\ puts[i].err = errNil
         /\ puts[i + 1].err = errNil)
        => /\ puts[i].ret = puts[i + 1].ret
           /\ Cardinality({f \in fs :
                  f.path = Join(imgDirPath, StableName(puts[i].image))}) = 1

\* p lies in directory dir (or is dir).
Inside(dir, p) ==
    /\ p.rooted = dir.rooted
    /\ Len(p.segs) >= Len(dir.segs)
    /\ SubSeq(p.segs, 1, Len(dir.segs)) = dir.segs
    /\ ".." \notin Range(p.segs)

\* C4, as claimed: for a requested name with a ".." segment anywhere in it,
\* buildImagePath never returns a path without an error.
C4_RejectsEveryDotDotName ==
    (lastCall.op = "GetImage" /\ ".." \in Range(lastCall.arg.segs))
        => lastCall.err # errNil

\* C4, amended: buildImagePath rejects with the invalid-path error every
\* name whose cleaned path, joined to the image directory, lies outside the
\* image directory; a path it returns, with no error or with
\* errImageNotFound, lies inside the image directory.
C4_NeverResolvesOutside ==
    (lastCall.op = "GetImage" /\ lastCall.arg # EmptyPath) =>
        /\ lastCall.err \in {errNil, errImageNotFound}
              => Inside(imgDirPath, lastCall.ret[1].path)
        /\ ~Inside(imgDirPath, Join(imgDirPath, Clean(lastCall.arg)))
              => lastCall.err = errInvalidPath

\* C4's case: a name with a ".." segment that leaves the image directory is
\* asked for while the file it names exists, and is rejected.
C4_Witness ==
    /\ lastCall.op = "GetImage"
    /\ ".." \in Range(lastCall.arg.segs)
    /\ Exists(fs, Join(imgDirPath, Clean(lastCall.arg)))
    /\ lastCall.err = errInvalidPath

\* C9: GetImage answers 400 and serves nothing for an empty file name and
\* for every error of buildImagePath but errImageNotFound, serves
\* <image dir>/default.jpg on errImageNotFound, and serves the resolved path
\* when buildImagePath succeeds; so it falls back to the default image exactly
\* on errImageNotFound.
C9_GetImageFallback ==
    lastCall.op = "GetImage" =>
        LET r    == buildImagePath(fs, imgDirPath, lastCall.arg)
            resp == lastCall.ret[1]
            default == Join(imgDirPath, DefaultImage)
        IN  IF lastCall.arg = EmptyPath
            THEN resp.answer = "400" /\ resp.served = EmptyPath
            ELSE /\ r.err = errImageNotFound
                      => resp.answer = "ServeFile" /\ resp.served = default
                 /\ r.err = errNil
                      => resp.answer = "ServeFile" /\ resp.served = r.path
                 /\ r.err \in {errInvalidPath, errBadSuffix}
                      => resp.answer = "400" /\ resp.served = EmptyPath
                 /\ r.err \in {errNil, errImageNotFound, errInvalidPath,
                               errBadSuffix}
                 /\ (resp.served = default /\ r.err # errImageNotFound)
                      => (r.err = errNil /\ r.path = default)

\* C9's case: a well-formed name of a missing image is answered with the
\* default image.
C9_Witness ==
    /\ lastCall.op = "GetImage"
    /\ lastCall.err = errImageNotFound
    /\ lastCall.ret[1].answer = "ServeFile"
    /\ lastCall.ret[1].served = Join(imgDirPath, DefaultImage)
    /\ lastCall.ret[1].path # Join(imgDirPath, DefaultImage)

(***************************************************************************)
(* Concurrent storeImage calls: each request runs Stat, then, inside       *)
(* os.WriteFile, the open with O_CREATE|O_TRUNC and the write, as separate *)
(* steps that interleave with the other requests' steps.                   *)
(***************************************************************************)
Procs == {1, 2}

MaxRounds == 2

InFlight(p) == proc[p].pc \notin {"idle", "done"}

InitPutRace ==
    /\ storeVarsIdle
    /\ lastCall = NoCall
    /\ imgDirPath = Path(FALSE, <<"images">>)
    /\ fs \in SUBSET {[path |-> Join(imgDirPath, DefaultImage), bytes |-> <<9>>]}
    /\ puts = <<>>
    /\ proc = [p \in Procs |-> [pc |-> "idle", image |-> <<>>, n |-> 0]]

PutPath(p) == Join(imgDirPath, StableName(proc[p].image))

PutReturn(p, ret) ==
    /\ proc' = [proc EXCEPT ![p].pc = "done"]
    /\ puts' = Append(puts, [image |-> proc[p].image, ret |-> ret, err |-> errNil])

\* AddItem calls storeImage with the uploaded bytes.
PutStart(p, image) ==
    /\ ~InFlight(p)
    /\ proc[p].n < MaxRounds
    /\ proc' = [proc EXCEPT ![p] = [pc |-> "stat", image |-> image, n |-> @.n + 1]]
    /\ UNCHANGED <<storeVars, lastCall, imageVars>>

\* os.Stat(filePath): the blob is there and storeImage returns, or it is not.
PutStat(p) ==
    /\ proc[p].pc = "stat"
    /\ IF Exists(fs, PutPath(p))
       THEN PutReturn(p, PutPath(p))
       ELSE proc' = [proc EXCEPT ![p].pc = "open"] /\ puts' = puts
    /\ UNCHANGED <<storeVars, lastCall, imgDirPath, fs>>

\* os.WriteFile opens with O_WRONLY|O_CREATE|O_TRUNC: the file is there and
\* empty.
PutOpen(p) ==
    /\ proc[p].pc = "open"
    /\ fs' = WriteFile(fs, PutPath(p), <<>>)
    /\ proc' = [proc EXCEPT ![p].pc = "write"]
    /\ UNCHANGED <<storeVars, lastCall, imgDirPath, puts>>

\* os.WriteFile writes the bytes from offset 0 and closes; storeImage
\* returns fileName.
PutWrite(p) ==
    /\ proc[p].pc = "write"
    /\ fs' = WriteFile(fs, PutPath(p), proc[p].image)
    /\ PutReturn(p, StableName(proc[p].image))
    /\ UNCHANGED <<storeVars, lastCall, imgDirPath>>

NextPutRace ==
    \E p \in Procs :
        \/ \E image \in Payloads : PutStart(p, image)
        \/ PutStat(p)
        \/ PutOpen(p)
        \/ PutWrite(p)

SpecPutRace == InitPutRace /\ [][NextPutRace]_vars

\* C7: a blob that is in the image directory under its stable name, with its
\* complete bytes, is there with the same bytes after every step of every
\* storeImage call, in every interleaving.
C7_BlobsNeverChange ==
    [][\A f \in fs :
          (\E b \in Payloads :
               f.path = Join(imgDirPath, StableName(b)) /\ f.bytes = b)
          => f \in fs']_vars

(***************************************************************************)
(* Concurrent Insert calls on the file-backed store: each call opens the   *)
(* file, decodes it, truncates it and encodes, as separate steps.          *)
(***************************************************************************)
InitFileRace ==
    /\ backend = "file"
    /\ jsonFile = NoFile
    /\ categories = <<>>
    /\ items = <<>>
    /\ inserted = <<>>
    /\ insertFailed = FALSE
    /\ lastCall = NoCall
    /\ imageVarsIdle
    /\ proc = [p \in Procs |->
                  [pc |-> "idle", item |-> <<>>, data |-> <<>>, n |-> 0,
                   overlapped |-> FALSE]]

\* The file after a write of new at offset 0.
WriteAtStart(data, new) == new \o SubSeq(data, Len(new) + 1, Len(data))

\* A handler calls Insert; overlapped records that another call is running.
FileStart(p, item) ==
    /\ ~InFlight(p)
    /\ proc[p].n < MaxRounds
    /\ Len(inserted) + Cardinality({q \in Procs : InFlight(q)}) < MaxItems
    /\ proc' = [proc EXCEPT ![p] =
                   [pc |-> "open", item |-> item, data |-> <<>>, n |-> @.n + 1,
                    overlapped |-> @.overlapped \/ \E q \in Procs : InFlight(q)]]
    /\ lastCall' = [op |-> "Insert", arg |-> item, fault |-> "none",
                    ret |-> <<>>, err |-> errNil]
    /\ UNCHANGED <<storeVars, imageVars>>

\* os.OpenFile(fileName, O_RDWR|O_CREATE, 0644)
FileOpen(p) ==
    /\ proc[p].pc = "open"
    /\ jsonFile' = [jsonFile EXCEPT !.exists = TRUE]
    /\ proc' = [proc EXCEPT ![p].pc = "decode"]
    /\ UNCHANGED <<backend, categories, items, inserted, insertFailed,
                   lastCall, imageVars>>

\* decoder.Decode(&data), then the append.
FileDecode(p) ==
    /\ proc[p].pc = "decode"
    /\ LET d == DecodeValue(jsonFile.data)
       IN  IF d.err \notin {errNil, "EOF"}
           THEN /\ proc' = [proc EXCEPT ![p].pc = "done"]
                /\ insertFailed' = TRUE
           ELSE /\ proc' = [proc EXCEPT ![p].pc = "truncate",
                                        ![p].data = InsertAppend(d.items, proc[p].item)]
                /\ insertFailed' = insertFailed
    /\ UNCHANGED <<backend, jsonFile, categories, items, inserted, lastCall,
                   imageVars>>

\* file.Seek(0, 0); file.Truncate(0)
FileTruncate(p) ==
    /\ proc[p].pc = "truncate"
    /\ jsonFile' = [jsonFile EXCEPT !.data = <<>>]
    /\ proc' = [proc EXCEPT ![p].pc = "encode"]
    /\ UNCHANGED <<backend, categories, items, inserted, insertFailed,
                   lastCall, imageVars>>

\* encoder.Encode(data), at this call's offset 0; Insert returns nil.
FileEncode(p) ==
    /\ proc[p].pc = "encode"
    /\ jsonFile' = [jsonFile EXCEPT
                       !.data = WriteAtStart(@, Encode(proc[p].data))]
    /\ proc' = [proc EXCEPT ![p].pc = "done"]
    /\ inserted' = Append(inserted, proc[p].item)
    /\ UNCHANGED <<backend, categories, items, insertFailed, lastCall, imageVars>>

\* A List after the Insert calls have returned.
FileList ==
    /\ \A p \in Procs : ~InFlight(p)
    /\ LET r == ListFile(jsonFile)
       IN  lastCall' = [op |-> "List", arg |-> <<>>, fault |-> "none",
                        ret |-> r.ret, err |-> r.err]
    /\ UNCHANGED <<storeVars, imageVars, proc>>

NextFileRace ==
    \/ \E p \in Procs :
          \/ \E item \in Item : FileStart(p, item)
          \/ FileOpen(p)
          \/ FileDecode(p)
          \/ FileTruncate(p)
          \/ FileEncode(p)
    \/ FileList

SpecFileRace == InitFileRace /\ [][NextFileRace]_vars

Overlapped == \E p \in Procs : proc[p].overlapped

\* C10: when the Insert calls on the file-backed store ran one after the
\* other, a List after them returns every inserted item; a List that misses
\* an item of an Insert that returned nil happens only after Insert calls
\* that overlapped.
C10_SequentialInsertsKeepAll ==
    (lastCall.op = "List" /\ ~insertFailed /\ ~Overlapped) =>
        /\ lastCall.err = errNil
        /\ FieldsOf(lastCall.ret) = FieldsOf(inserted)

\* C10's case, the lost update: two overlapping Insert calls have both
\* returned nil and the List after them returns without error and without one
\* of the two items.
C10_Witness ==
    /\ lastCall.op = "List"
    /\ Overlapped
    /\ ~insertFailed
    /\ \A p \in Procs : ~InFlight(p)
    /\ Len(inserted) = 2
    /\ lastCall.err = errNil
    /\ Len(lastCall.ret) = 1

=============================================================================
